---- MODULE Spec2Model ----
(***************************************************************************)
(* A model of wechat_clean.py: the conversion of a WeChat article's HTML   *)
(* tree into Markdown.  A string is a sequence of one-character strings,   *)
(* a document is a tree of records (text, comment, element), and the       *)
(* functions of the source are operators computed the way the source       *)
(* computes them.  Font sizes are held in thirds of a pixel so that the    *)
(* point-to-pixel conversion (4/3) stays in the integers.                  *)
(***************************************************************************)
EXTENDS Integers, Sequences, FiniteSets, TLC

VARIABLES
    pc,       \* the position in wechat_html_to_markdown (or in the call of a core function)
    title,    \* title, the text of the title element
    src,      \* the content root as parsed from the file
    content,  \* content, the tree the steps work on
    md,       \* md
    body,     \* md after line 260, before the title is put in front
    heading   \* the result of _looks_like_heading

vars == <<pc, title, src, content, md, body, heading>>

----------------------------------------------------------------------------
(* Characters and the string functions of Python the source relies on.     *)

SP == " "
TAB == "\t"
NL == "\n"
NBSP == "nbsp"
ZWSP == "zwsp"
\* the backtick
BT == "bt"
\* U+3000, white space for str.strip() that no pattern of _clean_text matches
IDSP == "idsp"

\* [ \t] of the regular expressions of _clean_text
IsBlank(c) == c \in {SP, TAB}

\* what str.strip() removes (U+00A0 is white space for Python, U+200B is not)
IsSpace(c) == c \in {SP, TAB, NL, NBSP, IDSP}

\* the concatenation of Out(1), ..., Out(Len(s))
FlatMapIdx(s, Out(_)) ==
    LET F[i \in 0..Len(s)] == IF i = 0 THEN <<>> ELSE F[i - 1] \o Out(i)
    IN  F[Len(s)]

\* str.strip()
PyStrip(s) ==
    LET idx == {i \in 1..Len(s) : ~IsSpace(s[i])}
    IN  IF idx = {} THEN <<>>
        ELSE SubSeq(s, CHOOSE i \in idx : \A j \in idx : i <= j,
                       CHOOSE i \in idx : \A j \in idx : i >= j)

\* str.rstrip()
PyRStrip(s) ==
    LET idx == {i \in 1..Len(s) : ~IsSpace(s[i])}
    IN  IF idx = {} THEN <<>>
        ELSE SubSeq(s, 1, CHOOSE i \in idx : \A j \in idx : i >= j)

\* str.rstrip("\n")
RStripNL(s) ==
    LET idx == {i \in 1..Len(s) : s[i] # NL}
    IN  IF idx = {} THEN <<>>
        ELSE SubSeq(s, 1, CHOOSE i \in idx : \A j \in idx : i >= j)

\* str.splitlines(), for the line break "\n"
RECURSIVE SplitLines(_)
SplitLines(s) ==
    IF s = <<>> THEN <<>>
    ELSE LET nls == {i \in 1..Len(s) : s[i] = NL}
         IN  IF nls = {} THEN <<s>>
             ELSE LET k == CHOOSE i \in nls : \A j \in nls : i <= j
                  IN  <<SubSeq(s, 1, k - 1)>> \o SplitLines(SubSeq(s, k + 1, Len(s)))

\* sep.join(parts)
RECURSIVE Join(_, _)
Join(sep, parts) ==
    IF parts = <<>> THEN <<>>
    ELSE IF Len(parts) = 1 THEN parts[1]
    ELSE parts[1] \o sep \o Join(sep, Tail(parts))

\* s.startswith(p)
StartsWith(s, p) == Len(s) >= Len(p) /\ SubSeq(s, 1, Len(p)) = p

\* c * n
RECURSIVE Rep(_, _)
Rep(c, n) == IF n <= 0 THEN <<>> ELSE <<c>> \o Rep(c, n - 1)

\* s.replace(U+00A0, " ").replace(U+200B, "")
ReplaceSpecial(s) ==
    FlatMapIdx(s, LAMBDA i : IF s[i] = ZWSP THEN <<>>
                             ELSE IF s[i] = NBSP THEN <<SP>> ELSE <<s[i]>>)

\* re.sub(r"[ \t]+\n", "\n", s): a run of blanks that ends at a newline goes
SubBlanksBeforeNL(s) ==
    FlatMapIdx(s, LAMBDA i :
        IF IsBlank(s[i]) /\ \E j \in (i + 1)..Len(s) :
               s[j] = NL /\ \A k \in i..(j - 1) : IsBlank(s[k])
        THEN <<>> ELSE <<s[i]>>)

\* re.sub(r"\n[ \t]+", "\n", s): a run of blanks that starts after a newline goes
SubBlanksAfterNL(s) ==
    FlatMapIdx(s, LAMBDA i :
        IF IsBlank(s[i]) /\ \E j \in 1..(i - 1) :
               s[j] = NL /\ \A k \in (j + 1)..i : IsBlank(s[k])
        THEN <<>> ELSE <<s[i]>>)

\* re.sub(r"[ \t]{2,}", " ", s): a run of two or more blanks becomes one space
SubBlankRuns(s) ==
    FlatMapIdx(s, LAMBDA i :
        IF ~IsBlank(s[i]) THEN <<s[i]>>
        ELSE IF i > 1 /\ IsBlank(s[i - 1]) THEN <<>>
        ELSE IF i < Len(s) /\ IsBlank(s[i + 1]) THEN <<SP>>
        ELSE <<s[i]>>)

\* _clean_text: the four substitutions in turn
_clean_text(s) == SubBlankRuns(SubBlanksAfterNL(SubBlanksBeforeNL(ReplaceSpecial(s))))

\* re.sub(r"\n{3,}", "\n\n", s): of a run of newlines the first two stay
CollapseNewlines(s) ==
    FlatMapIdx(s, LAMBDA i :
        IF s[i] = NL /\ i > 2 /\ s[i - 1] = NL /\ s[i - 2] = NL
        THEN <<>> ELSE <<s[i]>>)

----------------------------------------------------------------------------
(* The document tree (BeautifulSoup): text, comment and element nodes.  An *)
(* element has a lower-case name, a style attribute and its children.      *)

Text(s) == [kind |-> "text", s |-> s]
Comment(s) == [kind |-> "comment", s |-> s]
Elem(name, style, kids) == [kind |-> "elem", name |-> name, style |-> style, kids |-> kids]

IsElem(n) == n.kind = "elem"

\* style attribute: absent, present without a font-size, or "font-size: <val><unit>"
NoStyle == [decl |-> "none", val |-> 0, unit |-> "px"]
OtherStyle == [decl |-> "other", val |-> 0, unit |-> "px"]
FontStyle(val, unit) == [decl |-> "font", val |-> val, unit |-> unit]

\* None, the result of _parse_font_px without a match
NoPx == -1

\* _parse_font_px, in thirds of a pixel: val px is 3 * val, val pt is 4 * val
_parse_font_px(style) ==
    IF style.decl # "font" THEN NoPx
    ELSE IF style.unit = "px" THEN 3 * style.val ELSE 4 * style.val

\* the element descendants of n in document order (Tag.descendants)
RECURSIVE DescElems(_)
DescElems(n) ==
    IF ~IsElem(n) THEN <<>>
    ELSE FlatMapIdx(n.kids, LAMBDA i :
             IF IsElem(n.kids[i]) THEN <<n.kids[i]>> \o DescElems(n.kids[i]) ELSE <<>>)

\* tag.find_all(names, recursive=True)
FindAll(n, names) == SelectSeq(DescElems(n), LAMBDA e : e.name \in names)

\* tag.find_all(names, recursive=False)
FindChildren(n, names) == SelectSeq(n.kids, LAMBDA c : IsElem(c) /\ c.name \in names)

\* the strings get_text visits: every text node under n, comments left out
RECURSIVE AllStrings(_)
AllStrings(n) ==
    IF n.kind = "text" THEN <<n.s>>
    ELSE IF n.kind = "comment" THEN <<>>
    ELSE FlatMapIdx(n.kids, LAMBDA i : AllStrings(n.kids[i]))

\* tag.get_text()
GetText(n) == Join(<<>>, AllStrings(n))

\* tag.get_text(" ", strip=True): each string stripped, the empty ones left out
GetTextStrip(n) ==
    LET strs == AllStrings(n)
        stripped == [i \in 1..Len(strs) |-> PyStrip(strs[i])]
    IN  Join(<<SP>>, SelectSeq(stripped, LAMBDA t : t # <<>>))

InlineScan == {"span", "strong", "b", "em", "i", "font"}

Max(a, b) == IF a >= b THEN a ELSE b

\* ScanFont leaving the loop at 16px already
RECURSIVE ScanFont_BreakAt16(_, _, _)
ScanFont_BreakAt16(ts, i, mx) ==
    IF i > Len(ts) THEN mx
    ELSE LET px == _parse_font_px(ts[i].style)
         IN  IF ts[i].style.decl # "none" /\ px # NoPx /\ px # 0
             THEN IF Max(mx, px) >= 16 * 3 THEN Max(mx, px)
                  ELSE ScanFont_BreakAt16(ts, i + 1, Max(mx, px))
             ELSE ScanFont_BreakAt16(ts, i + 1, mx)

\* the loop of _max_font_px over ts from position i on, mx the running maximum
RECURSIVE ScanFont(_, _, _)
ScanFont(ts, i, mx) ==
    IF i > Len(ts) THEN mx
    ELSE LET px == _parse_font_px(ts[i].style)
         IN  IF ts[i].style.decl # "none" /\ px # NoPx /\ px # 0
             THEN IF Max(mx, px) >= 24 * 3 THEN Max(mx, px)
                  ELSE ScanFont(ts, i + 1, Max(mx, px))
             ELSE ScanFont(ts, i + 1, mx)

\* _max_font_px: the loop over the tag and its inline descendants
_max_font_px(tag) == ScanFont(<<tag>> \o FindAll(tag, InlineScan), 1, 0)

\* len(bold_text) of _looks_like_heading
BoldLen(p_tag) ==
    LET bs == FindAll(p_tag, {"strong", "b"})
    IN  Len(Join(<<>>, [i \in 1..Len(bs) |-> GetTextStrip(bs[i])]))

\* HeadingLevel with the two bold-ratio rules in the other order
HeadingLevel_LevelFourFirst(p_tag, max_px) ==
    LET len == Len(GetTextStrip(p_tag))
        bold == 100 * BoldLen(p_tag)
        den == Max(1, len)
    IN  IF len = 0 \/ len > 60 THEN <<FALSE, 0>>
        ELSE IF bold >= 85 * den \/ max_px >= 16 * 3
        THEN IF max_px >= 22 * 3 THEN <<TRUE, 2>>
             ELSE IF max_px >= 18 * 3 THEN <<TRUE, 3>>
             ELSE IF bold >= 85 * den /\ len <= 20 THEN <<TRUE, 4>>
             ELSE IF bold >= 95 * den /\ len <= 30 THEN <<TRUE, 3>>
             ELSE <<FALSE, 0>>
        ELSE <<FALSE, 0>>

\* _looks_like_heading from line 96 on, with max_px given; bold_ratio >= r/100
\* is 100 * len(bold_text) >= r * max(1, len(text))
HeadingLevel(p_tag, max_px) ==
    LET len == Len(GetTextStrip(p_tag))
        bold == 100 * BoldLen(p_tag)
        den == Max(1, len)
    IN  IF len = 0 \/ len > 60 THEN <<FALSE, 0>>
        ELSE IF bold >= 85 * den \/ max_px >= 16 * 3
        THEN IF max_px >= 22 * 3 THEN <<TRUE, 2>>
             ELSE IF max_px >= 18 * 3 THEN <<TRUE, 3>>
             ELSE IF bold >= 95 * den /\ len <= 30 THEN <<TRUE, 3>>
             ELSE IF bold >= 85 * den /\ len <= 20 THEN <<TRUE, 4>>
             ELSE <<FALSE, 0>>
        ELSE <<FALSE, 0>>

\* _looks_like_heading, max_px from the probe
_looks_like_heading(p_tag) == HeadingLevel(p_tag, _max_font_px(p_tag))

HardDrop == {"script", "style", "noscript", "img", "figure", "video", "audio",
             "source", "iframe", "canvas", "svg"}

\* txt.replace(backtick, backslash + backtick)
EscapeBackticks(s) ==
    FlatMapIdx(s, LAMBDA i : IF s[i] = BT THEN <<"\\", BT>> ELSE <<s[i]>>)

\* _inline_md; parent is the name of node's parent element
RECURSIVE _inline_md(_, _)
_inline_md(node, parent) ==
    IF node.kind = "comment" THEN <<>>
    ELSE IF node.kind = "text" THEN node.s
    ELSE LET kidsMd == FlatMapIdx(node.kids, LAMBDA i : _inline_md(node.kids[i], node.name))
         IN  IF node.name \in HardDrop THEN <<>>
             ELSE IF node.name = "br" THEN <<NL>>
             ELSE IF node.name = "a" THEN kidsMd
             ELSE IF node.name \in {"strong", "b"}
             THEN IF PyStrip(kidsMd) # <<>>
                  THEN <<"*", "*">> \o PyStrip(kidsMd) \o <<"*", "*">> ELSE <<>>
             ELSE IF node.name \in {"em", "i"}
             THEN IF PyStrip(kidsMd) # <<>>
                  THEN <<"*">> \o PyStrip(kidsMd) \o <<"*">> ELSE <<>>
             ELSE IF node.name = "code" /\ parent # "pre"
             THEN <<BT>> \o EscapeBackticks(GetText(node)) \o <<BT>>
             ELSE kidsMd

\* "".join(_inline_md(c) for c in cs), the children of an element named parent
InlineAll(cs, parent) == FlatMapIdx(cs, LAMBDA i : _inline_md(cs[i], parent))

\* "#" * level + " " + text + "\n\n"
HeadingLine(level, text) == Rep("#", level) \o <<SP>> \o text \o <<NL, NL>>

HeadingTags == {"h1", "h2", "h3", "h4", "h5", "h6"}

\* int(name[1]) of a heading tag
TagLevel(name) ==
    CASE name = "h1" -> 1 [] name = "h2" -> 2 [] name = "h3" -> 3
      [] name = "h4" -> 4 [] name = "h5" -> 5 [] name = "h6" -> 6

\* the decimal digits of a list index
Digits(n) ==
    LET d(k) == <<"0", "1", "2", "3", "4", "5", "6", "7", "8", "9">>[k + 1]
    IN  IF n < 10 THEN <<d(n)>> ELSE <<d(n \div 10), d(n % 10)>>

\* _li_to_md and _to_md
RECURSIVE _li_to_md(_, _, _, _), _to_md(_, _)
_li_to_md(li_tag, list_level, ordered, index) ==
    LET nested_lists == SelectSeq(li_tag.kids, LAMBDA c : IsElem(c) /\ c.name \in {"ul", "ol"})
        content_parts == SelectSeq(li_tag.kids, LAMBDA c : ~(IsElem(c) /\ c.name \in {"ul", "ol"}))
        text == PyStrip(_clean_text(InlineAll(content_parts, li_tag.name)))
        indent == Rep(SP, 2 * list_level)
        prefix == IF ordered THEN Digits(index) \o <<".", SP>> ELSE <<"-", SP>>
        line == PyRStrip(indent \o prefix \o text) \o <<NL>>
        nested_md == FlatMapIdx(nested_lists, LAMBDA i : _to_md(nested_lists[i], list_level + 1))
    IN  IF text = <<>> /\ nested_lists = <<>> THEN <<>> ELSE line \o nested_md

_to_md(node, list_level) ==
    IF node.kind = "comment" THEN <<>>
    ELSE IF node.kind = "text" THEN node.s
    ELSE LET kidsMd == FlatMapIdx(node.kids, LAMBDA i : _to_md(node.kids[i], list_level))
         IN
         IF node.name \in HardDrop THEN <<>>
         ELSE IF node.name \in {"article", "div", "section"} THEN kidsMd
         ELSE IF node.name \in HeadingTags
         THEN LET text == PyStrip(_clean_text(InlineAll(node.kids, node.name)))
              IN  IF text # <<>> THEN HeadingLine(TagLevel(node.name), text) ELSE <<>>
         ELSE IF node.name = "p"
         THEN LET text_plain == GetTextStrip(node)
                  h == _looks_like_heading(node)
                  text == PyStrip(_clean_text(InlineAll(node.kids, node.name)))
              IN  IF text_plain = <<>> THEN <<>>
                  ELSE IF h[1] THEN HeadingLine(h[2], PyStrip(_clean_text(text_plain)))
                  ELSE IF text # <<>> THEN text \o <<NL, NL>> ELSE <<>>
         ELSE IF node.name = "blockquote"
         THEN LET inner == PyStrip(_clean_text(kidsMd))
                  lines == SelectSeq(SplitLines(inner), LAMBDA ln : PyStrip(ln) # <<>>)
              IN  IF inner = <<>> THEN <<>>
                  ELSE Join(<<NL>>, [i \in 1..Len(lines) |-> <<">", SP>> \o lines[i]])
                       \o <<NL, NL>>
         ELSE IF node.name = "ul"
         THEN LET lis == FindChildren(node, {"li"})
                  items == [i \in 1..Len(lis) |-> _li_to_md(lis[i], list_level, FALSE, 1)]
              IN  Join(<<>>, items)
                  \o (IF \E i \in 1..Len(items) : items[i] # <<>> THEN <<NL>> ELSE <<>>)
         ELSE IF node.name = "ol"
         THEN LET lis == FindChildren(node, {"li"})
                  items == [i \in 1..Len(lis) |-> _li_to_md(lis[i], list_level, TRUE, i)]
              IN  Join(<<>>, items) \o (IF Len(items) > 0 THEN <<NL>> ELSE <<>>)
         ELSE IF node.name = "pre"
         THEN LET code == RStripNL(GetText(node))
              IN  IF PyStrip(code) # <<>>
                  THEN <<BT, BT, BT, NL>> \o code \o <<NL, BT, BT, BT, NL, NL>> ELSE <<>>
         ELSE IF node.name = "table"
         THEN LET trs == FindAll(node, {"tr"})
                  cells(tr) == LET cs == FindAll(tr, {"th", "td"})
                               IN  [j \in 1..Len(cs) |-> GetTextStrip(cs[j])]
                  anyCell(tr) == \E j \in 1..Len(cells(tr)) : cells(tr)[j] # <<>>
                  kept == SelectSeq(trs, anyCell)
                  rows == [i \in 1..Len(kept) |-> Join(<<TAB>>, cells(kept[i]))]
              IN  IF rows # <<>> THEN Join(<<NL>>, rows) \o <<NL, NL>> ELSE <<>>
         ELSE IF node.name = "hr" THEN <<NL, "-", "-", "-", NL, NL>>
         ELSE kidsMd

----------------------------------------------------------------------------
(* The steps of wechat_html_to_markdown on the content root.               *)

Noisy == {"script", "style", "noscript", "iframe", "form", "input", "button",
          "textarea", "select", "option", "img", "figure", "video", "audio",
          "source", "canvas", "svg"}

\* every comment under n extracted (lines 241-242)
RECURSIVE RemoveComments(_)
RemoveComments(n) ==
    IF ~IsElem(n) THEN n
    ELSE [n EXCEPT !.kids = FlatMapIdx(n.kids, LAMBDA i :
             IF n.kids[i].kind = "comment" THEN <<>> ELSE <<RemoveComments(n.kids[i])>>)]

\* every noisy element under n decomposed (lines 245-249)
RECURSIVE RemoveNoisy(_)
RemoveNoisy(n) ==
    IF ~IsElem(n) THEN n
    ELSE [n EXCEPT !.kids = FlatMapIdx(n.kids, LAMBDA i :
             IF IsElem(n.kids[i]) /\ n.kids[i].name \in Noisy THEN <<>>
             ELSE <<RemoveNoisy(n.kids[i])>>)]

\* every link under n replaced by its visible text (lines 252-253)
RECURSIVE UnwrapLinks(_)
UnwrapLinks(n) ==
    IF ~IsElem(n) THEN n
    ELSE [n EXCEPT !.kids = FlatMapIdx(n.kids, LAMBDA i :
             IF IsElem(n.kids[i]) /\ n.kids[i].name = "a"
             THEN <<Text(GetTextStrip(n.kids[i]))>>
             ELSE <<UnwrapLinks(n.kids[i])>>)]

\* tag.attrs = {} on an element and on every element under it
RECURSIVE ClearAttrs(_)
ClearAttrs(n) ==
    IF ~IsElem(n) THEN n
    ELSE [n EXCEPT !.style = NoStyle,
                   !.kids = [i \in 1..Len(n.kids) |-> ClearAttrs(n.kids[i])]]

\* every element under n (n itself is not in find_all(True)) loses its
\* attributes (lines 256-257)
StripAttrs(n) == [n EXCEPT !.kids = [i \in 1..Len(n.kids) |-> ClearAttrs(n.kids[i])]]

\* line 259
Normalize(s) == PyStrip(_clean_text(s))

\* line 260
Collapse(s) == PyStrip(CollapseNewlines(s)) \o <<NL>>

\* the test of line 265 on the first line of md
TitlePresent(s, t) ==
    LET lines == SplitLines(s)
        first_line == IF lines # <<>> THEN PyStrip(lines[1]) ELSE <<>>
    IN  StartsWith(first_line, <<"#", SP>>)
        /\ PyStrip(SubSeq(first_line, 3, Len(first_line))) = t

\* WithTitle without the test of line 265
WithTitle_Always(s, t) ==
    IF t # <<>> THEN <<"#", SP>> \o t \o <<NL, NL>> \o s ELSE s

\* lines 263-266
WithTitle(s, t) ==
    IF t # <<>> /\ ~TitlePresent(s, t) THEN <<"#", SP>> \o t \o <<NL, NL>> \o s ELSE s

----------------------------------------------------------------------------
(* The inputs: bounded sets of titles and documents.                       *)

\* the cells of a table row are at most MaxCells
MaxCells == 3
\* the text of a pre element is at most MaxCode characters
MaxCode == 5
\* a paragraph of styled spans has at most MaxSpans spans
MaxSpans == 3

El(name, kids) == Elem(name, NoStyle, kids)
T(s) == Text(s)
Doc(blocks) == El("div", blocks)

\* all sequences over S of length 1..n
SeqsUpTo(S, n) == UNION {[1..k -> S] : k \in 1..n}

Titles == {<<>>, <<"T">>, <<"T", SP, "U">>, <<"T", SP, SP, "U">>, <<"T", NL, "U">>}

HeadingBlocks ==
    {El("h1", <<T(t)>>) : t \in {<<"T">>, <<"T", SP, "U">>, <<"T", SP, SP, "U">>,
                                 <<SP, "T", NBSP>>, <<"T", ZWSP>>, <<"V">>, <<SP>>}}
    \cup {El("h2", <<T(<<"I">>)>>), T(<<"#", SP, "T">>), T(<<"#", TAB, SP, "T">>),
          El("p", <<T(<<"#", SP, IDSP, "T">>)>>),
          El("h1", <<El("strong", <<T(<<"T">>)>>)>>)}

ParagraphBlocks ==
    { El("p", <<T(<<"x", SP, "y">>)>>),
      El("p", <<El("strong", <<T(<<"H", "i">>)>>)>>),
      El("p", <<Elem("span", FontStyle(24, "px"), <<T(<<"B", "i", "g">>)>>)>>),
      Elem("p", FontStyle(18, "pt"), <<T(<<"B", "i", "g">>)>>),
      El("p", <<Elem("span", FontStyle(16, "px"), <<T(<<"M", "i", "d">>)>>)>>),
      El("p", <<Comment(<<"c">>), T(<<"x">>), El("em", <<T(<<"e">>)>>)>>),
      El("p", <<T(<<"s", "e", "e">>), Elem("a", OtherStyle, <<T(<<SP, "l", SP>>)>>)>>),
      El("p", <<El("img", <<>>), T(<<NBSP, ZWSP>>)>>),
      El("p", <<T(<<"x", SP>>), El("br", <<>>), T(<<SP, "y">>), El("code", <<T(<<BT>>)>>)>>),
      El("p", <<>>) }

OtherBlocks ==
    { El("script", <<T(<<"j", "s">>)>>), Comment(<<"c">>), T(<<NL>>), T(<<SP, "x", NL, NL, NL>>),
      El("hr", <<>>), El("section", <<El("hr", <<>>), El("hr", <<>>)>>),
      El("blockquote", <<El("p", <<T(<<"q">>)>>), T(<<NL, SP>>), El("p", <<T(<<"r">>)>>)>>),
      El("blockquote", <<El("ul", <<El("li", <<T(<<"a">>), El("ul", <<El("li", <<T(<<"b">>)>>)>>)>>)>>)>>),
      El("blockquote", <<>>),
      El("figure", <<El("img", <<>>), El("figcaption", <<T(<<"c", "a", "p">>)>>)>>),
      El("form", <<El("input", <<>>), T(<<"f">>)>>) }

ItemTexts == {<<>>, <<"a">>, <<"b", SP>>}

\* a list whose first item holds a nested list, both unordered or ordered
ListBlocks ==
    { El(outer, <<El("li", <<T(a), El(inner, <<El("li", <<T(b)>>), El("li", <<T(c)>>)>>)>>),
                  El("li", <<T(c)>>)>>) :
        outer \in {"ul", "ol"}, inner \in {"ul", "ol"},
        a \in ItemTexts, b \in ItemTexts, c \in {<<>>, <<"c">>} }
    \cup {El("ul", <<>>), El("ol", <<>>), El("ul", <<T(<<"x">>)>>)}

CellTexts == {<<>>, <<"a">>}

Row(cells) == El("tr", [i \in 1..Len(cells) |-> El("td", <<T(cells[i])>>)])

\* a table of one or two rows
TableBlocks ==
    LET rows == {Row(cs) : cs \in SeqsUpTo(CellTexts, MaxCells)}
    IN  {El("table", <<r>>) : r \in rows}
        \cup {El("table", <<El("tbody", <<r1, r2>>)>>) : r1 \in rows, r2 \in rows}

CodeTexts == SeqsUpTo({"x", SP, NL}, MaxCode) \cup {<<"x", TAB, TAB, "x">>, <<TAB, "x">>}

PreBlocks == {El("pre", <<T(c)>>) : c \in CodeTexts}
             \cup {El("pre", <<El("code", <<T(<<"x", NL, SP, "y">>)>>)>>)}

SmallBlocks == HeadingBlocks \cup ParagraphBlocks \cup OtherBlocks

Docs ==
    {Doc(<<b>>) : b \in SmallBlocks \cup ListBlocks \cup TableBlocks \cup PreBlocks}
    \cup {Doc(<<b1, b2>>) : b1 \in SmallBlocks, b2 \in SmallBlocks}
    \cup {Doc(<<>>)}

----------------------------------------------------------------------------
(* wechat_html_to_markdown as a state machine: one action per step.        *)

Init ==
    /\ pc = "comments"
    /\ title \in Titles
    /\ src \in Docs
    /\ content = src
    /\ md = <<>>
    /\ body = <<>>
    /\ heading = <<FALSE, 0>>

\* lines 241-242
RemoveCommentsStep ==
    /\ pc = "comments"
    /\ content' = RemoveComments(content)
    /\ pc' = "noisy"
    /\ UNCHANGED <<title, src, md, body, heading>>

\* lines 245-249
RemoveNoisyStep ==
    /\ pc = "noisy"
    /\ content' = RemoveNoisy(content)
    /\ pc' = "links"
    /\ UNCHANGED <<title, src, md, body, heading>>

\* lines 252-253
UnwrapLinksStep ==
    /\ pc = "links"
    /\ content' = UnwrapLinks(content)
    /\ pc' = "attrs"
    /\ UNCHANGED <<title, src, md, body, heading>>

\* lines 256-257
StripAttrsStep ==
    /\ pc = "attrs"
    /\ content' = StripAttrs(content)
    /\ pc' = "convert"
    /\ UNCHANGED <<title, src, md, body, heading>>

\* line 259
ConvertStep ==
    /\ pc = "convert"
    /\ md' = Normalize(_to_md(content, 0))
    /\ pc' = "collapse"
    /\ UNCHANGED <<title, src, content, body, heading>>

\* line 260
CollapseStep ==
    /\ pc = "collapse"
    /\ md' = Collapse(md)
    /\ body' = md'
    /\ pc' = "title"
    /\ UNCHANGED <<title, src, content, heading>>

\* lines 263-270: md is what is written to the output file
TitleStep ==
    /\ pc = "title"
    /\ md' = WithTitle(md, title)
    /\ pc' = "done"
    /\ UNCHANGED <<title, src, content, body, heading>>

Next ==
    \/ RemoveCommentsStep
    \/ RemoveNoisyStep
    \/ UnwrapLinksStep
    \/ StripAttrsStep
    \/ ConvertStep
    \/ CollapseStep
    \/ TitleStep

Spec == Init /\ [][Next]_vars

----------------------------------------------------------------------------
(* The core functions on their own: _looks_like_heading and _to_md applied *)
(* to a tree that still has its style attributes and its media elements.   *)

FontStyles ==
    {NoStyle, OtherStyle, FontStyle(0, "px"), FontStyle(15, "px"), FontStyle(16, "px"),
     FontStyle(20, "px"), FontStyle(23, "px"), FontStyle(24, "px"), FontStyle(30, "px"),
     FontStyle(12, "pt")}

TextLens == {1, 19, 20, 21, 30, 31, 60, 61, 70}

\* a paragraph whose whole text is in one strong or b element
BoldParagraphs ==
    {Elem("p", sp, <<Elem(bn, ss, <<T(Rep("a", n))>>)>>) :
        sp \in FontStyles, ss \in FontStyles, bn \in {"strong", "b"}, n \in TextLens}

\* paragraphs partly in bold, the bold elements nested or side by side
MixedParagraphs ==
    UNION {
      { El("p", <<El("strong", <<El("b", <<T(Rep("a", n1))>>)>>), T(Rep("z", n2))>>),
        El("p", <<El("b", <<T(Rep("a", n1))>>), T(Rep("z", n2))>>),
        El("p", <<El("b", <<T(Rep("a", n1))>>), El("strong", <<T(Rep("a", n1))>>), T(Rep("z", n2))>>),
        El("p", <<El("strong", <<T(Rep("a", n1)), El("b", <<T(Rep("a", n1))>>)>>), T(Rep("z", n2))>>) }
      : n1 \in 0..4, n2 \in 0..4 }

SpanText == <<"a", "b">>

\* paragraphs of styled inline elements
SpanParagraphs ==
    {El("p", [i \in 1..Len(st) |-> Elem("span", st[i], <<T(SpanText)>>)]) :
        st \in SeqsUpTo(FontStyles, MaxSpans)}
    \cup {El("p", <<Elem(nm, s1, <<Elem("span", s2, <<T(SpanText)>>)>>)>>) :
            nm \in {"font", "em", "i", "div", "u"}, s1 \in FontStyles, s2 \in FontStyles}

\* the text of a hard-dropped element is made of X, which no other text holds
Dropped ==
    UNION { {El(d, <<T(<<"X">>)>>), El(d, <<El("span", <<T(<<"X">>)>>)>>),
             El("span", <<El(d, <<T(<<"X">>)>>)>>)}
            : d \in {"svg", "canvas", "video", "audio", "figure"} }

DropContexts ==
    UNION {
      { El("p", <<T(<<"o", "k">>), D>>),
        El("p", <<El("strong", <<T(<<"H", "i">>), D>>)>>),
        Elem("p", FontStyle(24, "px"), <<T(<<"H", "i">>), D>>),
        El("table", <<El("tr", <<El("td", <<T(<<"a">>), D>>), El("th", <<T(<<"b">>)>>)>>)>>),
        El("pre", <<T(<<"c", NL, "d">>), D>>),
        El("p", <<T(<<"o", "k">>), El("code", <<T(<<"c">>), D>>)>>),
        El("ul", <<El("li", <<T(<<"a">>), D>>)>>),
        El("ol", <<El("li", <<D, El("ul", <<El("li", <<D, T(<<"b">>)>>)>>)>>)>>),
        El("blockquote", <<El("p", <<T(<<"q">>), D>>), D>>),
        El("h2", <<T(<<"h">>), D>>),
        El("div", <<D, El("em", <<T(<<"e">>), D>>)>>) }
      : D \in Dropped }

CoreNodes == BoldParagraphs \cup MixedParagraphs \cup SpanParagraphs \cup DropContexts

CoreInit ==
    /\ pc = "node"
    /\ content \in CoreNodes
    /\ src = content
    /\ title = <<>>
    /\ md = <<>>
    /\ body = <<>>
    /\ heading = <<FALSE, 0>>

\* is_h, lvl = _looks_like_heading(node)
Classify ==
    /\ pc = "node"
    /\ content.name = "p"
    /\ heading' = _looks_like_heading(content)
    /\ pc' = "classified"
    /\ UNCHANGED <<title, src, content, md, body>>

\* _to_md(node)
Render ==
    /\ pc = "node"
    /\ md' = _to_md(content, 0)
    /\ pc' = "rendered"
    /\ UNCHANGED <<title, src, content, body, heading>>

CoreNext == Classify \/ Render

CoreSpec == CoreInit /\ [][CoreNext]_vars

----------------------------------------------------------------------------
(* What the claims speak of.                                               *)

Range(s) == {s[i] : i \in 1..Len(s)}

\* block occurs in s
Contains(s, block) ==
    \E i \in 1..(Len(s) - Len(block) + 1) : SubSeq(s, i, i + Len(block) - 1) = block

\* the number of spaces a line starts with
LeadingSpaces(line) ==
    Cardinality({i \in 1..Len(line) : \A j \in 1..i : line[j] = SP})

NonBlankLines(s) == SelectSeq(SplitLines(s), LAMBDA ln : PyStrip(ln) # <<>>)

FirstLine(s) == IF SplitLines(s) = <<>> THEN <<>> ELSE SplitLines(s)[1]

\* the tree the conversion would see if no attribute were stripped
Sanitized(doc) == UnwrapLinks(RemoveNoisy(RemoveComments(doc)))

\* the font sizes declared under n, in document order
FontSizes(n) ==
    LET es == SelectSeq(DescElems(n), LAMBDA e : e.style.decl = "font")
    IN  [i \in 1..Len(es) |-> _parse_font_px(es[i].style)]

\* the font sizes declared on p or under it, as a set
FontDecls(p) == Range(FontSizes(El("div", <<p>>)))

\* the elements _max_font_px is to look at
Scanned(p) == <<p>> \o FindAll(p, InlineScan)

\* the largest font size among the scanned elements, 0 without any
FullMaxFontPx(p) ==
    LET sizes == {_parse_font_px(Scanned(p)[i].style) : i \in 1..Len(Scanned(p))} \ {NoPx}
    IN  IF sizes = {} THEN 0 ELSE CHOOSE m \in sizes : \A k \in sizes : m >= k

\* a paragraph whose only child is a strong or b element holding only text
FullyBold(p) ==
    /\ IsElem(p) /\ p.name = "p" /\ Len(p.kids) = 1
    /\ IsElem(p.kids[1]) /\ p.kids[1].name \in {"strong", "b"}
    /\ \A i \in 1..Len(p.kids[1].kids) : p.kids[1].kids[i].kind = "text"

\* the stripped strings under n, each with whether a strong or b element holds it
RECURSIVE StringsBold(_, _)
StringsBold(n, inBold) ==
    IF n.kind = "text" THEN <<[s |-> PyStrip(n.s), bold |-> inBold]>>
    ELSE IF n.kind = "comment" THEN <<>>
    ELSE FlatMapIdx(n.kids, LAMBDA i :
             StringsBold(n.kids[i], inBold \/ n.name \in {"strong", "b"}))

RECURSIVE SumLen(_)
SumLen(ss) == IF ss = <<>> THEN 0 ELSE Len(ss[1].s) + SumLen(Tail(ss))

\* the visible characters of p, and those of them inside a strong or b element
VisibleChars(p) == SumLen(StringsBold(p, FALSE))
BoldChars(p) == SumLen(SelectSeq(StringsBold(p, FALSE), LAMBDA x : x.bold))

----------------------------------------------------------------------------
(* C1, as stated: a fully-bold paragraph shorter than 20 characters is a   *)
(* heading of level 4 without a font-size, of level 3 at 20px, of level 2  *)
(* at 23px; a fully-bold paragraph of 70 characters is never a heading.    *)
C1_ShortBoldIsLevelFour ==
    (pc = "classified" /\ FullyBold(content)) =>
        LET len == Len(GetTextStrip(content))
        IN  /\ (len < 20 /\ FontDecls(content) = {}) => heading = <<TRUE, 4>>
            /\ (len < 20 /\ FontDecls(content) = {20 * 3}) => heading = <<TRUE, 3>>
            /\ (len < 20 /\ FontDecls(content) = {23 * 3}) => heading = <<TRUE, 2>>
            /\ (len = 70) => heading = <<FALSE, 0>>

(* C1, amended: without a font-size the fully-bold paragraph shorter than  *)
(* 20 characters is a heading of level 3 (the rule for a bold ratio of 95% *)
(* and at most 30 characters comes before the rule of level 4); 20px gives *)
(* level 3, 23px level 2, and 70 characters are never a heading.           *)
C1_ShortBoldIsLevelThree ==
    (pc = "classified" /\ FullyBold(content)) =>
        LET len == Len(GetTextStrip(content))
        IN  /\ (len < 20 /\ FontDecls(content) = {}) => heading = <<TRUE, 3>>
            /\ (len < 20 /\ FontDecls(content) = {20 * 3}) => heading = <<TRUE, 3>>
            /\ (len < 20 /\ FontDecls(content) = {23 * 3}) => heading = <<TRUE, 2>>
            /\ (len = 70) => heading = <<FALSE, 0>>

\* C1: a short fully-bold paragraph without font-size has been classified
C1_Witness ==
    /\ pc = "classified" /\ FullyBold(content)
    /\ Len(GetTextStrip(content)) = 19 /\ FontDecls(content) = {}
    /\ heading = <<TRUE, 3>>

(* C2, as stated: the text written has no run of three or more newlines    *)
(* and ends with exactly one newline, whatever the title and the content.  *)
C2_NoBlankRunsOneTrailingNewline ==
    (pc = "done") =>
        /\ ~Contains(md, <<NL, NL, NL>>)
        /\ Len(md) >= 1 /\ md[Len(md)] = NL
        /\ (Len(md) >= 2 => md[Len(md) - 1] # NL)

\* a list whose first item holds text and a nested list whose first item holds text
TwoLevelUl(doc) ==
    /\ Len(doc.kids) = 1 /\ IsElem(doc.kids[1]) /\ doc.kids[1].name = "ul"
    /\ LET lis == FindChildren(doc.kids[1], {"li"})
       IN  /\ lis # <<>>
           /\ Len(lis[1].kids) = 2
           /\ lis[1].kids[1].kind = "text" /\ PyStrip(lis[1].kids[1].s) # <<>>
           /\ IsElem(lis[1].kids[2]) /\ lis[1].kids[2].name = "ul"
           /\ LET inner == FindChildren(lis[1].kids[2], {"li"})
              IN  /\ inner # <<>>
                  /\ inner[1].kids[1].kind = "text" /\ PyStrip(inner[1].kids[1].s) # <<>>

OuterItem(doc) == <<"-", SP>> \o PyStrip(doc.kids[1].kids[1].kids[1].s)
InnerItem(doc) == <<"-", SP>> \o PyStrip(doc.kids[1].kids[1].kids[2].kids[1].kids[1].s)

(* C3, as stated: in the text written for a two-level unordered list the   *)
(* line of an inner item starts with two more spaces than the line of its  *)
(* parent item.                                                            *)
C3_NestedItemIndented ==
    (pc = "done" /\ TwoLevelUl(src)) =>
        \E i, j \in 1..Len(SplitLines(md)) :
            LET outer == SplitLines(md)[i]
                inner == SplitLines(md)[j]
            IN  /\ i < j
                /\ PyStrip(outer) = OuterItem(src)
                /\ PyStrip(inner) = InnerItem(src)
                /\ LeadingSpaces(inner) = LeadingSpaces(outer) + 2

\* a document that is one table
OneTable(doc) == Len(doc.kids) = 1 /\ IsElem(doc.kids[1]) /\ doc.kids[1].name = "table"

\* the cell texts of each row of the table, row by row
RowCells(doc) ==
    LET trs == FindAll(doc.kids[1], {"tr"})
    IN  [i \in 1..Len(trs) |->
            LET cs == FindAll(trs[i], {"th", "td"})
            IN  [j \in 1..Len(cs) |-> GetTextStrip(cs[j])]]

(* C4, as stated: a row of empty cells gives no line, and every other row  *)
(* is one line of the text written: its cell texts with one tab between    *)
(* each two neighbours.                                                    *)
C4_RowsTabJoined ==
    (pc = "done" /\ OneTable(src)) =>
        LET kept == SelectSeq(RowCells(src), LAMBDA cs : \E j \in 1..Len(cs) : cs[j] # <<>>)
        IN  NonBlankLines(body) = [i \in 1..Len(kept) |-> Join(<<TAB>>, kept[i])]

(* C5, as stated: the text inside a hard-dropped element adds nothing to   *)
(* what _to_md returns, whatever element the dropped one lies in.          *)
C5_DroppedTextInvisible ==
    (pc = "rendered") => "X" \notin Range(md)

\* line is "# " and the title, with white space allowed around the title
HeadingOf(line, t) ==
    /\ StartsWith(line, <<"#", SP>>)
    /\ \E i \in 3..(Len(line) - Len(t) + 1) :
          /\ SubSeq(line, i, i + Len(t) - 1) = t
          /\ \A k \in (3..(i - 1)) \cup ((i + Len(t))..Len(line)) : IsSpace(line[k])

TitleLine(t) == <<"#", SP>> \o t

(* C6, as stated: with a title, "# " + title and a blank line are put in   *)
(* front exactly when the first line of the body is not that heading; so   *)
(* the text written starts with the line "# " + title and its first two    *)
(* non-blank lines are never both that heading.                            *)
C6_TitleFirstNeverTwice ==
    (pc = "done" /\ title # <<>>) =>
        /\ md \in {body, TitleLine(title) \o <<NL, NL>> \o body}
        /\ (md # body) <=> (FirstLine(body) # TitleLine(title))
        /\ StartsWith(md, TitleLine(title) \o <<NL>>)
        /\ ~(/\ Len(NonBlankLines(md)) >= 2
             /\ NonBlankLines(md)[1] = TitleLine(title)
             /\ NonBlankLines(md)[2] = TitleLine(title))

(* C6, amended: with a title, "# " + title and a blank line are put in     *)
(* front exactly when the first line of the body is not "# " followed by   *)
(* the title with only white space around it; so the text written starts   *)
(* with "# " + title or is the body whose first line is already that       *)
(* heading, and the step adds no second copy: the first two non-blank      *)
(* lines are both the heading only when the body itself has it twice.      *)
C6_TitleGuard ==
    (pc = "done" /\ title # <<>>) =>
        /\ md \in {body, TitleLine(title) \o <<NL, NL>> \o body}
        /\ (md # body) <=> ~HeadingOf(FirstLine(body), title)
        /\ \/ StartsWith(md, TitleLine(title) \o <<NL>>)
           \/ md = body /\ HeadingOf(FirstLine(md), title)
        /\ (/\ Len(NonBlankLines(md)) >= 2
            /\ HeadingOf(NonBlankLines(md)[1], title)
            /\ HeadingOf(NonBlankLines(md)[2], title)) => md = body

\* C6: a body that opens with the title's heading has been written as it is
C6_Witness ==
    /\ pc = "done" /\ title = <<"T", SP, "U">>
    /\ FirstLine(body) = TitleLine(title)
    /\ md = body
    /\ Len(NonBlankLines(md)) >= 2

(* C7, as stated: the style attributes are stripped only after the core    *)
(* conversion, so where the conversion starts the tree still declares the  *)
(* font sizes of the source, and a paragraph of the source that the        *)
(* classifier takes for a level-2 heading is written as one.               *)
C7_StyleSeenByClassifier ==
    /\ (pc = "convert") => FontSizes(content) = FontSizes(Sanitized(src))
    /\ (pc = "done") =>
          \A i \in 1..Len(Sanitized(src).kids) :
              LET p == Sanitized(src).kids[i]
              IN  (IsElem(p) /\ p.name = "p" /\ _looks_like_heading(p) = <<TRUE, 2>>) =>
                      \E k \in 1..Len(SplitLines(md)) :
                          SplitLines(md)[k] = <<"#", "#", SP>> \o Normalize(GetTextStrip(p))

\* a document that is one pre element with text that is not blank
OnePre(doc) ==
    /\ Len(doc.kids) = 1 /\ IsElem(doc.kids[1]) /\ doc.kids[1].name = "pre"
    /\ PyStrip(GetText(doc.kids[1])) # <<>>

(* C8, as stated: the text written holds a fenced block whose body is the  *)
(* flattened text of the pre element with only its trailing newlines       *)
(* removed.                                                                *)
C8_PreVerbatim ==
    (pc = "done" /\ OnePre(src)) =>
        Contains(<<NL>> \o md,
                 <<NL, BT, BT, BT, NL>> \o RStripNL(GetText(src.kids[1]))
                     \o <<NL, BT, BT, BT, NL>>)

(* C9: the early exit of _max_font_px changes no decision: the result of   *)
(* _looks_like_heading is the one it has with the largest font size of the *)
(* scanned elements; and the probe gives 0 when none declares a font size. *)
C9_EarlyExitHarmless ==
    (pc = "classified") =>
        /\ heading = HeadingLevel(content, FullMaxFontPx(content))
        /\ (\A i \in 1..Len(Scanned(content)) : Scanned(content)[i].style.decl # "font")
               => _max_font_px(content) = 0

\* C9: a paragraph classified after the probe left its loop early
C9_Witness ==
    /\ pc = "classified"
    /\ _max_font_px(content) >= 24 * 3
    /\ _max_font_px(content) < FullMaxFontPx(content)
    /\ heading = <<TRUE, 2>>

(* C10, as stated: the bold ratio is the share of the visible characters   *)
(* that lie inside a strong or b element, each counted once, so it is at   *)
(* most 1, and a paragraph without font-size with less than 85% of its     *)
(* visible characters in bold is never a heading.                          *)
C10_BoldRatioIsShare ==
    (pc = "classified") =>
        /\ BoldLen(content) <= Max(1, Len(GetTextStrip(content)))
        /\ (FontDecls(content) = {}
            /\ 100 * BoldChars(content) < 85 * Max(1, VisibleChars(content)))
               => heading[1] = FALSE

====
